---- MODULE Spec2Model ----
(***************************************************************************)
(* Model of the persistence layer of the Movies app: the SQL store         *)
(* (src/movie_storage_sql.py) as used by the CLI (src/movies.py), and the  *)
(* JSON store (src/movie_storage.py).                                      *)
(*                                                                         *)
(* The SQL store is the SQLite file movies.db: a users table and a movies  *)
(* table.  Every repository function opens a connection, runs its          *)
(* statements, commits and returns.                                        *)
(*                                                                         *)
(*   Spec            the movie operations, one call after another          *)
(*   SpecUsers       the user directory, one call after another            *)
(*   SpecBoot        the bootstrap block run at import, on every shape of  *)
(*                   store it can find                                     *)
(*   SpecUsersRace   two calls of get_or_create_user, statement by         *)
(*                   statement on two connections                          *)
(*   SpecMoviesRace  two calls of add_movie, likewise                      *)
(*   SpecJson        the JSON store, save_movies statement by statement,   *)
(*                   with stops in between                                 *)
(*                                                                         *)
(* Column values are opaque to this layer (no arithmetic, no formatting),  *)
(* so years, ratings and poster urls are modelled as tokens; Python's None *)
(* and SQL's NULL are the token None.                                      *)
(***************************************************************************)
EXTENDS Integers, FiniteSets, Sequences, Bags, TLC

VARIABLES users, nextUserId, movies, last

\* The shape of the tables in movies.db, and how the bootstrap pass at
\* import went.
VARIABLES schema, boot

\* Two connections to movies.db at work at the same time: where each is in
\* its call and what it has written but not committed, and which of them
\* holds SQLite's write lock.
VARIABLES conn, lock

\* The JSON store: the files data.json and data.json.tmp, and the call
\* that is writing them.
VARIABLES files, job

bootVars == <<schema, boot>>
raceVars == <<conn, lock>>
jsonVars == <<files, job>>

\* The state the repository functions, run one at a time, never touch.
aux == <<schema, boot, conn, lock, files, job>>

vars ==
    <<users, nextUserId, movies, last, schema, boot, conn, lock, files, job>>

(* ---------------------------- input domains ---------------------------- *)

None == "None"

\* Titles differing only in case: the code compares titles by exact match.
Titles == {"Dune", "dune"}
Years == {"1984", "2021"}
Ratings == {"8.0", "8.5"}
PosterUrls == {"http://p/1.jpg"}
Names == {"Default", "alice", "Bob", "carol", "Dave"}
\* Owner ids the callers pass; id 2 is the id of "alice" once she is created.
OwnerIds == {1, 2}

\* The table is unbounded; the model stops inserting at this many rows.
MaxRows == 2

(* ------------------------------ the store ------------------------------ *)

\* Columns of a row of the movies table.  No statement of the program reads
\* the surrogate id, so a row is its other columns and the table is a bag:
\* nothing in the schema keeps two rows from agreeing on all of them.
MovieRow ==
    [title : Titles, year : Years, rating : Ratings,
     poster_url : PosterUrls \cup {None}, user_id : OwnerIds]

\* Columns of a row of the users table.
UserRow == [id : 1..(Cardinality(Names) + 1), name : Names]

\* The parameters update_movie declares besides title and user_id.
UpdateParams == {"rating", "year", "poster_url"}

\* Keyword names a caller may try to pass to update_movie.
FieldNames == UpdateParams \cup {"note", "external_id"}

\* The value a caller passes for a keyword when it passes one.
NewValue(f) ==
    CASE f = "rating" -> "8.5"
      [] f = "year" -> "1984"
      [] f = "poster_url" -> "http://p/1.jpg"
      [] OTHER -> "rewatch"

\* The keyword dictionaries the callers pass to update_movie: values for a
\* set S of parameters, the other parameters either left out or passed as
\* None; or one keyword update_movie does not declare.
KwargsSet ==
    {[f \in S |-> NewValue(f)] : S \in SUBSET UpdateParams}
      \cup {[f \in UpdateParams |-> IF f \in S THEN NewValue(f) ELSE None] :
              S \in SUBSET UpdateParams}
      \cup {[f \in {g} |-> NewValue(f)] : g \in FieldNames \ UpdateParams}

(* ---------------------------- user directory --------------------------- *)

\* INSERT INTO users(name) without OR IGNORE.
InsertUser(u, nid, name) ==
    [users |-> u \cup {[id |-> nid, name |-> name]}, nextId |-> nid + 1]

\* INSERT OR REPLACE INTO users(name): a row of that name is deleted and a
\* new one inserted under the next id.
InsertOrReplaceUser(u, nid, name) ==
    [users |-> {r \in u : r.name # name} \cup {[id |-> nid, name |-> name]},
     nextId |-> nid + 1]

\* INSERT OR IGNORE INTO users(name): name is UNIQUE, ids are AUTOINCREMENT.
InsertOrIgnoreUser(u, nid, name) ==
    IF \E r \in u : r.name = name
    THEN [users |-> u, nextId |-> nid]
    ELSE [users |-> u \cup {[id |-> nid, name |-> name]}, nextId |-> nid + 1]

\* get_or_create_user: insert-if-absent, select, commit, return (id, name).
get_or_create_user(u, nid, name) ==
    LET ins == InsertOrIgnoreUser(u, nid, name)
        row == CHOOSE r \in ins.users : r.name = name
    IN  [users |-> ins.users, nextId |-> ins.nextId,
         result |-> <<row.id, row.name>>]

\* The code points of a name (all ASCII).
NameBytes(name) ==
    CASE name = "Default" -> <<68, 101, 102, 97, 117, 108, 116>>
      [] name = "alice" -> <<97, 108, 105, 99, 101>>
      [] name = "Bob" -> <<66, 111, 98>>
      [] name = "carol" -> <<99, 97, 114, 111, 108>>
      [] name = "Dave" -> <<68, 97, 118, 101>>

\* x sorts strictly before y byte by byte, a proper prefix first.
BytesLess(x, y) ==
    \/ \E i \in 1..Len(x) :
         /\ i <= Len(y)
         /\ x[i] < y[i]
         /\ \A j \in 1..(i - 1) : x[j] = y[j]
    \/ /\ Len(x) < Len(y)
       /\ \A j \in 1..Len(x) : x[j] = y[j]

\* SQLite's default collation BINARY, which ORDER BY name ASC uses.
BinaryLess(a, b) == BytesLess(NameBytes(a), NameBytes(b))

\* list_users: SELECT id, name FROM users ORDER BY name ASC, as a list of
\* (id, name).  Names are unique, so the order is total.
list_users(u) ==
    [i \in 1..Cardinality(u) |->
        LET r == CHOOSE q \in u :
                   Cardinality({p \in u : BinaryLess(p.name, q.name)}) = i - 1
        IN  <<r.id, r.name>>]

(* --------------------------- movie repository -------------------------- *)

\* Exists with the owner left out of the WHERE clause.
ExistsAnyOwner(m, title, uid) ==
    \E r \in BagToSet(m) : r.title = title

\* SELECT 1 FROM movies WHERE user_id = :uid AND title = :t
Exists(m, title, uid) ==
    \E r \in BagToSet(m) : r.user_id = uid /\ r.title = title

\* Matching with the owner left out of the WHERE clause.
MatchingTitleOnly(m, title, uid) ==
    {r \in BagToSet(m) : r.title = title}

\* The rows a statement with WHERE title = :title AND user_id = :uid touches.
Matching(m, title, uid) ==
    {r \in BagToSet(m) : r.title = title /\ r.user_id = uid}

\* list_movies with the owner left out of the WHERE clause.
list_movies_all_owners(m, uid) ==
    LET rows == BagToSet(m)
        Pick(t) == CHOOSE r \in rows : r.title = t
    IN  [t \in {r.title : r \in rows} |->
            [year |-> Pick(t).year, rating |-> Pick(t).rating,
             poster_url |-> Pick(t).poster_url]]

\* list_movies: the rows of the owner as a dict title -> attributes.  The
\* dict comprehension keeps one row per title (the last one fetched); Python
\* dict equality ignores insertion order, so the ORDER BY is not represented.
list_movies(m, uid) ==
    LET rows == {r \in BagToSet(m) : r.user_id = uid}
        Pick(t) == CHOOSE r \in rows : r.title = t
    IN  [t \in {r.title : r \in rows} |->
            [year |-> Pick(t).year, rating |-> Pick(t).rating,
             poster_url |-> Pick(t).poster_url]]

\* The row add_movie inserts.
NewRow(title, year, rating, poster_url, uid) ==
    [title |-> title, year |-> year, rating |-> rating,
     poster_url |-> poster_url, user_id |-> uid]

\* add_movie that does not bind :poster_url in the INSERT.
add_movie_no_poster(m, title, year, rating, poster_url, uid) ==
    IF Exists(m, title, uid)
    THEN [movies |-> m, outcome |-> "ValueError", access |-> TRUE,
          printed |-> "Error"]
    ELSE [movies |-> m (+) SetToBag({NewRow(title, year, rating, None, uid)}),
          outcome |-> "ok", access |-> TRUE,
          printed |-> "added successfully"]

\* add_movie that inserts and commits before it looks for the duplicate.
add_movie_insert_first(m, title, year, rating, poster_url, uid) ==
    [movies |-> m (+) SetToBag({NewRow(title, year, rating, poster_url, uid)}),
     outcome |-> IF Exists(m, title, uid) THEN "ValueError" ELSE "ok",
     access |-> TRUE,
     printed |-> IF Exists(m, title, uid) THEN "Error"
                 ELSE "added successfully"]

\* add_movie without the exists-check.
add_movie_nocheck(m, title, year, rating, poster_url, uid) ==
    [movies |-> m (+) SetToBag({NewRow(title, year, rating, poster_url, uid)}),
     outcome |-> "ok", access |-> TRUE, printed |-> "added successfully"]

\* add_movie: exists-check, then insert and commit, or raise ValueError.
add_movie(m, title, year, rating, poster_url, uid) ==
    IF Exists(m, title, uid)
    THEN [movies |-> m, outcome |-> "ValueError", access |-> TRUE,
          printed |-> "Error"]
    ELSE [movies |-> m (+) SetToBag({NewRow(title, year, rating, poster_url,
                                            uid)}),
          outcome |-> "ok", access |-> TRUE,
          printed |-> "added successfully"]

\* delete_movie without the rowcount check.
delete_movie_no_raise(m, title, uid) ==
    LET hit == Matching(m, title, uid)
    IN  [movies |-> [r \in BagToSet(m) \ hit |-> m[r]],
         outcome |-> "ok", access |-> TRUE,
         printed |-> "deleted successfully"]

\* delete_movie: delete the matching rows, commit, KeyError on rowcount 0.
delete_movie(m, title, uid) ==
    LET hit == Matching(m, title, uid)
    IN  [movies |-> [r \in BagToSet(m) \ hit |-> m[r]],
         outcome |-> IF hit = {} THEN "KeyError" ELSE "ok",
         access |-> TRUE,
         printed |-> IF hit = {} THEN "" ELSE "deleted successfully"]

\* UPDATE that sets all three columns, NULL for a parameter that is None.
UpdateRowsFull(m, title, uid, rating, year, poster_url) ==
    LET Set(r) ==
          IF r.title = title /\ r.user_id = uid
          THEN [r EXCEPT !.rating = rating, !.year = year,
                         !.poster_url = poster_url]
          ELSE r
    IN  BagOfAll(Set, m)

\* UPDATE that always binds poster_url, NULL when the parameter is None.
UpdateRowsPosterAlways(m, title, uid, rating, year, poster_url) ==
    LET Set(r) ==
          IF r.title = title /\ r.user_id = uid
          THEN [r EXCEPT !.rating = IF rating # None THEN rating ELSE @,
                         !.year = IF year # None THEN year ELSE @,
                         !.poster_url = poster_url]
          ELSE r
    IN  BagOfAll(Set, m)

\* UPDATE movies SET <the parameters that are not None> WHERE title, owner.
UpdateRows(m, title, uid, rating, year, poster_url) ==
    LET Set(r) ==
          IF r.title = title /\ r.user_id = uid
          THEN [r EXCEPT !.rating = IF rating # None THEN rating ELSE @,
                         !.year = IF year # None THEN year ELSE @,
                         !.poster_url = IF poster_url # None
                                        THEN poster_url ELSE @]
          ELSE r
    IN  BagOfAll(Set, m)

\* update_movie without the early return for "no updates".
update_movie_no_early_return(m, title, uid, rating, year, poster_url) ==
    [movies |-> UpdateRows(m, title, uid, rating, year, poster_url),
     outcome |-> "ok", access |-> TRUE,
     printed |-> IF Matching(m, title, uid) = {}
                 THEN "No movie found" ELSE "updated"]

\* update_movie: body of the function, parameters already bound.
update_movie(m, title, uid, rating, year, poster_url) ==
    IF rating = None /\ year = None /\ poster_url = None
    THEN [movies |-> m, outcome |-> "ok", access |-> FALSE,
          printed |-> "No updates provided."]
    ELSE [movies |-> UpdateRows(m, title, uid, rating, year, poster_url),
          outcome |-> "ok", access |-> TRUE,
          printed |-> IF Matching(m, title, uid) = {}
                      THEN "No movie found" ELSE "updated"]

\* A parameter's value in a call: the keyword's value, else the default None.
Arg(kw, f) == IF f \in DOMAIN kw THEN kw[f] ELSE None

\* storage.update_movie(title=..., user_id=..., **kw): Python binds the
\* keywords to the declared parameters and raises TypeError for any other.
call_update_movie(m, title, uid, kw) ==
    IF DOMAIN kw \subseteq UpdateParams
    THEN update_movie(m, title, uid,
                      Arg(kw, "rating"), Arg(kw, "year"), Arg(kw, "poster_url"))
    ELSE [movies |-> m, outcome |-> "TypeError", access |-> FALSE,
          printed |-> ""]

(* ------------------------------ bootstrap ------------------------------ *)

\* The columns of movies the statements of the program name (the surrogate
\* id is left out, as in the rows).
LegacyCols == {"title", "year", "rating"}
AllCols == LegacyCols \cup {"poster_url", "user_id"}

\* What CREATE TABLE IF NOT EXISTS users / movies make of an empty file:
\* both tables, movies with every column and user_id declared NOT NULL.
\* schema.movies = {} stands for "no movies table".
FreshSchema == [users |-> TRUE, movies |-> AllCols, owner_not_null |-> TRUE]

\* The statements of the bootstrap block that can raise an error other than
\* "duplicate column name" (disk full, database locked, ...).
BootStatements ==
    {"create_users", "create_movies", "alter_poster_url", "alter_user_id",
     "insert_default", "select_default", "backfill"}

Faults == BootStatements \cup {"none"}

\* SQL NULL in the integer column user_id (ids start at 1).
NullOwner == 0

\* The user_id of a row, NULL for a row of a table without that column.
OwnerOf(r) == IF "user_id" \in DOMAIN r THEN r.user_id ELSE NullOwner

\* CREATE TABLE IF NOT EXISTS users (...)
CreateUsers(s) ==
    IF s.schema.users THEN s
    ELSE [s EXCEPT !.schema.users = TRUE, !.users = {}, !.nextId = 1]

\* CREATE TABLE IF NOT EXISTS movies (...)
CreateMovies(s) ==
    IF s.schema.movies # {} THEN s
    ELSE [s EXCEPT !.schema.movies = AllCols, !.schema.owner_not_null = TRUE,
                   !.movies = EmptyBag]

\* ALTER TABLE movies ADD COLUMN col: fails when the column exists; else
\* every row gets NULL in the new column.
AlterAddColumn(s, col) ==
    [s EXCEPT !.schema.movies = @ \cup {col},
              !.movies = BagOfAll(LAMBDA r : [c \in DOMAIN r \cup {col} |->
                                    IF c \in DOMAIN r THEN r[c]
                                    ELSE IF c = "user_id" THEN NullOwner
                                    ELSE None], @)]

\* UPDATE movies SET user_id = :uid WHERE user_id IS NULL
Backfill(m, uid) ==
    BagOfAll(LAMBDA r : IF r.user_id = NullOwner THEN [r EXCEPT !.user_id = uid]
                        ELSE r, m)

\* The bootstrap block run at import on the store s, when the statement
\* `fault` (if any) raises an error other than "duplicate column name".
\* DDL takes effect at once (the driver opens no transaction for it); the
\* INSERT and the UPDATE are lost unless the final commit is reached.
bootstrap(s, fault) ==
    LET a == CreateUsers(s)
        b == CreateMovies(a)
        \* try: ALTER ... ADD COLUMN poster_url  except Exception: pass
        c == IF fault = "alter_poster_url" \/ "poster_url" \in b.schema.movies
             THEN b ELSE AlterAddColumn(b, "poster_url")
        \* added_user_id = False; try: ALTER ...; added_user_id = True
        added_user_id ==
            fault # "alter_user_id" /\ "user_id" \notin c.schema.movies
        d == IF added_user_id THEN AlterAddColumn(c, "user_id") ELSE c
        ins == InsertOrIgnoreUser(d.users, d.nextId, "Default")
        default_user_id == (CHOOSE r \in ins.users : r.name = "Default").id
        e == [d EXCEPT !.users = ins.users, !.nextId = ins.nextId]
        f == IF added_user_id
             THEN [e EXCEPT !.movies = Backfill(@, default_user_id)]
             ELSE e
        Returns(t, outcome, raised) ==
            [schema |-> t.schema, users |-> t.users, nextId |-> t.nextId,
             movies |-> t.movies, outcome |-> outcome, fault |-> raised,
             added_user_id |-> added_user_id]
    IN  CASE fault = "create_users" -> Returns(s, "aborted", fault)
          [] fault = "create_movies" -> Returns(a, "aborted", fault)
          [] fault \in {"insert_default", "select_default"} ->
               Returns(d, "aborted", fault)
          [] fault = "backfill" /\ added_user_id -> Returns(d, "aborted", fault)
          \* an ALTER on a column that exists raises "duplicate column name"
          [] fault = "alter_poster_url" /\ "poster_url" \notin b.schema.movies ->
               Returns(f, "committed", fault)
          [] fault = "alter_user_id" /\ "user_id" \notin c.schema.movies ->
               Returns(f, "committed", fault)
          [] OTHER -> Returns(f, "committed", "none")

(* ------------------------------ JSON store ----------------------------- *)

\* The dict get_movies returns and save_movies writes: title -> properties.
NoMovies == [t \in {} |-> None]

JsonDocs ==
    UNION {[S -> [year : {"2021"}, rating : Ratings]] : S \in SUBSET Titles}

\* What a file holds: nothing at all (absent), zero bytes, the beginning of
\* a JSON text, or a whole JSON text; and whether the bytes have reached the
\* disk (os.fsync) or may still be lost when the machine stops.
Absent == [kind |-> "absent", doc |-> NoMovies, synced |-> TRUE]
EmptyFile == [kind |-> "empty", doc |-> NoMovies, synced |-> TRUE]
PartialFile == [kind |-> "partial", doc |-> NoMovies, synced |-> TRUE]
Json(doc, synced) == [kind |-> "json", doc |-> doc, synced |-> synced]

\* save_movies writing straight into the file it is given.
InPlace(path) == path

\* tmp = DATA_FILE.with_suffix(DATA_FILE.suffix + ".tmp")
TmpOf(path) == "tmp"

\* _ensure_file: write "{}" when data.json is missing or has size 0.
ensure_file(f) ==
    IF f.data.kind \in {"absent", "empty"}
    THEN [f EXCEPT !.data = Json(NoMovies, FALSE)]
    ELSE f

\* get_movies: _ensure_file, json.load; on JSONDecodeError rewrite the file
\* as "{}" and return {}.
get_movies(f) ==
    LET g == ensure_file(f)
    IN  IF g.data.kind = "json"
        THEN [files |-> g, result |-> g.data.doc]
        ELSE [files |-> [g EXCEPT !.data = Json(NoMovies, FALSE)],
              result |-> NoMovies]

\* os.replace(src, dst): dst gets the content of src in one step, src is gone.
Replace(f, src, dst) ==
    IF src = dst THEN f
    ELSE [p \in DOMAIN f |->
            IF p = dst THEN f[src] ELSE IF p = src THEN Absent ELSE f[p]]

\* What may be left of a file when the process or the machine stops: bytes
\* that were synced stay; others may be there in full, in part or not at all.
Survives(c) ==
    IF c.synced THEN {c} ELSE {c, EmptyFile, PartialFile}

(* ------------------------------- actions ------------------------------- *)

Conns == {"A", "B"}

\* No call is under way on either connection.
IdleConns == [c \in Conns |-> [pc |-> "idle"]]

\* The JSON store before its first use: no file, no call.
NoFiles == [data |-> Absent, tmp |-> Absent]
NoJob == [pc |-> "idle"]

\* What the caller of the last call observed: how it returned, whether it
\* opened a connection to the store, and what it printed.
Call(op, res) ==
    [op |-> op, outcome |-> res.outcome, access |-> res.access,
     printed |-> res.printed]

\* A call that returns normally after store access and prints nothing.
Quiet == [outcome |-> "ok", access |-> TRUE, printed |-> ""]

\* After import of movie_storage_sql on a fresh movies.db: both tables
\* exist, the Default user has id 1, there are no movies.
Init ==
    /\ users = {[id |-> 1, name |-> "Default"]}
    /\ nextUserId = 2
    /\ movies = EmptyBag
    /\ last = Call("import", Quiet)
    /\ schema = FreshSchema
    /\ boot = [outcome |-> "committed", fault |-> "none",
               added_user_id |-> FALSE, clean |-> 1]
    /\ conn = IdleConns
    /\ lock = "free"
    /\ files = NoFiles
    /\ job = NoJob

GetOrCreateUserCall(name) ==
    LET res == get_or_create_user(users, nextUserId, name)
    IN  /\ users' = res.users
        /\ nextUserId' = res.nextId
        /\ last' = Call("get_or_create_user", Quiet)
        /\ UNCHANGED <<movies, aux>>

GetOrCreateUser == \E name \in Names : GetOrCreateUserCall(name)

ListMoviesCall(uid) ==
    /\ last' = Call("list_movies", Quiet)
    /\ UNCHANGED <<users, nextUserId, movies, aux>>

ListMovies == \E uid \in OwnerIds : ListMoviesCall(uid)

AddMovieCall(title, year, rating, poster_url, uid) ==
    LET res == add_movie(movies, title, year, rating, poster_url, uid)
    IN  /\ BagCardinality(res.movies) <= MaxRows
        /\ movies' = res.movies
        /\ last' = Call("add_movie", res)
        /\ UNCHANGED <<users, nextUserId, aux>>

AddMovie ==
    \E title \in Titles, year \in Years, rating \in Ratings,
       poster_url \in PosterUrls \cup {None}, uid \in OwnerIds :
      AddMovieCall(title, year, rating, poster_url, uid)

DeleteMovieCall(title, uid) ==
    LET res == delete_movie(movies, title, uid)
    IN  /\ movies' = res.movies
        /\ last' = Call("delete_movie", res)
        /\ UNCHANGED <<users, nextUserId, aux>>

DeleteMovie == \E title \in Titles, uid \in OwnerIds : DeleteMovieCall(title, uid)

UpdateMovieCall(title, uid, kw) ==
    LET res == call_update_movie(movies, title, uid, kw)
    IN  /\ movies' = res.movies
        /\ last' = Call("update_movie", res)
        /\ UNCHANGED <<users, nextUserId, aux>>

UpdateMovie ==
    \E title \in Titles, uid \in OwnerIds, kw \in KwargsSet :
      UpdateMovieCall(title, uid, kw)

Next ==
    \/ ListMovies
    \/ AddMovie
    \/ DeleteMovie
    \/ UpdateMovie

Spec == Init /\ [][Next]_vars

ListUsersCall ==
    /\ list_users(users) \in Seq(Nat \X Names)
    /\ last' = Call("list_users", Quiet)
    /\ UNCHANGED <<users, nextUserId, movies, aux>>

ListUsers == ListUsersCall

\* The user directory on its own.
NextUsers ==
    \/ GetOrCreateUser
    \/ ListUsers

SpecUsers == Init /\ [][NextUsers]_vars

\* The stores a bootstrap pass can find: an empty file, a movies table of
\* an earlier version (without user_id, with or without poster_url; rows
\* were not unique then), a table that got user_id by ALTER (nullable), or
\* the present schema.  The users table is absent, empty (a pass that was
\* cut short), or holds Default with or without a second user.  The tables
\* hold up to two rows.
BootRows(cols, owners) ==
    CASE cols = LegacyCols ->
           [title : Titles, year : {"2021"}, rating : {"8.0"}]
      [] cols = LegacyCols \cup {"poster_url"} ->
           [title : Titles, year : {"2021"}, rating : {"8.0"},
            poster_url : PosterUrls \cup {None}]
      [] OTHER ->
           [title : Titles, year : {"2021"}, rating : {"8.0"},
            poster_url : PosterUrls \cup {None}, user_id : owners]

BootBags(rows) ==
    {EmptyBag} \cup {SetToBag({r}) : r \in rows}
      \cup {SetToBag({r}) (+) SetToBag({q}) : r \in rows, q \in rows}

LegacyShapes(cols) ==
    {[schema |-> [users |-> FALSE, movies |-> cols, owner_not_null |-> FALSE],
      users |-> {}, nextId |-> 1, movies |-> m] :
        m \in BootBags(BootRows(cols, {}))}

BootShapes ==
    LegacyShapes(LegacyCols) \cup LegacyShapes(LegacyCols \cup {"poster_url"})
      \cup
    {[schema |-> [users |-> ut, movies |-> {}, owner_not_null |-> FALSE],
      users |-> {}, nextId |-> 1, movies |-> EmptyBag] : ut \in BOOLEAN}
      \cup
    {[schema |-> [users |-> TRUE, movies |-> AllCols, owner_not_null |-> nn],
      users |-> u, nextId |-> Cardinality(u) + 1, movies |-> m] :
        nn \in BOOLEAN,
        u \in {{}, {[id |-> 1, name |-> "Default"]},
               {[id |-> 1, name |-> "Default"], [id |-> 2, name |-> "alice"]}},
        m \in BootBags(BootRows(AllCols, OwnerIds \cup {NullOwner}))}

InitBoot ==
    \E s \in BootShapes :
      /\ s.schema.owner_not_null =>
           \A r \in BagToSet(s.movies) : r.user_id # NullOwner
      /\ schema = s.schema
      /\ users = s.users
      /\ nextUserId = s.nextId
      /\ movies = s.movies
      /\ boot = [outcome |-> "none", fault |-> "none",
                 added_user_id |-> FALSE, clean |-> 0]
      /\ last = [op |-> "none", outcome |-> "ok", access |-> FALSE,
                 printed |-> ""]
      /\ conn = IdleConns
      /\ lock = "free"
      /\ files = NoFiles
      /\ job = NoJob

\* One start of the program: import movie_storage_sql runs the bootstrap
\* block.  boot.clean counts the passes in a row that raised nothing, up
\* to two.
BootstrapPass(fault) ==
    LET res == bootstrap([schema |-> schema, users |-> users,
                          nextId |-> nextUserId, movies |-> movies], fault)
    IN  /\ schema' = res.schema
        /\ users' = res.users
        /\ nextUserId' = res.nextId
        /\ movies' = res.movies
        /\ boot' = [outcome |-> res.outcome, fault |-> res.fault,
                    added_user_id |-> res.added_user_id,
                    clean |-> IF res.fault # "none" THEN 0
                              ELSE IF boot.clean = 0 THEN 1 ELSE 2]
        /\ last' = [op |-> "import",
                    outcome |-> IF res.outcome = "committed" THEN "ok"
                                ELSE "OperationalError",
                    access |-> TRUE, printed |-> ""]
        /\ UNCHANGED <<raceVars, jsonVars>>

Bootstrap == \E fault \in Faults : BootstrapPass(fault)

NextBoot == Bootstrap

SpecBoot == InitBoot /\ [][NextBoot]_vars

(* ------------------------ two connections at once ---------------------- *)

\* SQLite lets one connection write at a time: a statement that writes
\* waits until no other connection holds the write lock, and the lock is
\* held until that connection commits.  (The wait is bounded by the busy
\* timeout, 5 s by default; the holder needs a SELECT and a COMMIT.)
CanWrite(c) == lock \in {"free", c}

\* users.name is UNIQUE.
NameUnique(u) == \A r1 \in u, r2 \in u : r1.name = r2.name => r1 = r2

\* Two calls of get_or_create_user begin, on a directory that holds Default
\* and perhaps alice.
InitUsersRace ==
    /\ \E u \in {{[id |-> 1, name |-> "Default"]},
                 {[id |-> 1, name |-> "Default"], [id |-> 2, name |-> "alice"]}} :
         /\ users = u
         /\ nextUserId = Cardinality(u) + 1
    /\ movies = EmptyBag
    /\ last = Call("import", Quiet)
    /\ schema = FreshSchema
    /\ boot = [outcome |-> "committed", fault |-> "none",
               added_user_id |-> FALSE, clean |-> 1]
    /\ conn \in [Conns -> {[pc |-> "start", name |-> n] : n \in Names}]
    /\ lock = "free"
    /\ files = NoFiles
    /\ job = NoJob

\* connection.execute(INSERT OR IGNORE INTO users(name) VALUES (:n))
UserInsert(c) ==
    /\ conn[c].pc = "start"
    /\ CanWrite(c)
    /\ LET ins == InsertOrIgnoreUser(users, nextUserId, conn[c].name)
       IN  IF NameUnique(ins.users)
           THEN /\ conn' = [conn EXCEPT ![c] =
                      [pc |-> "inserted", name |-> conn[c].name, view |-> ins]]
                /\ lock' = c
           ELSE /\ conn' = [conn EXCEPT ![c] =
                      [pc |-> "done", name |-> conn[c].name,
                       outcome |-> "IntegrityError"]]
                /\ lock' = "free"
    /\ UNCHANGED <<users, nextUserId, movies, last, bootVars, jsonVars>>

\* row = connection.execute(SELECT id, name FROM users WHERE name = :n)
UserSelect(c) ==
    /\ conn[c].pc = "inserted"
    /\ LET row == CHOOSE r \in conn[c].view.users : r.name = conn[c].name
       IN  conn' = [conn EXCEPT ![c] =
                 [pc |-> "selected", name |-> conn[c].name,
                  view |-> conn[c].view, result |-> <<row.id, row.name>>]]
    /\ UNCHANGED <<users, nextUserId, movies, last, lock, bootVars, jsonVars>>

\* connection.commit(); return (row[0], row[1])
UserCommit(c) ==
    /\ conn[c].pc = "selected"
    /\ users' = conn[c].view.users
    /\ nextUserId' = conn[c].view.nextId
    /\ lock' = "free"
    /\ conn' = [conn EXCEPT ![c] =
              [pc |-> "done", name |-> conn[c].name, outcome |-> "ok",
               result |-> conn[c].result]]
    /\ UNCHANGED <<movies, last, bootVars, jsonVars>>

NextUsersRace ==
    \/ \E c \in Conns : UserInsert(c)
    \/ \E c \in Conns : UserSelect(c)
    \/ \E c \in Conns : UserCommit(c)

SpecUsersRace == InitUsersRace /\ [][NextUsersRace]_vars

\* The arguments of the two racing add_movie calls.
RaceArgs ==
    [pc : {"start"}, title : Titles, year : {"2021"}, rating : Ratings,
     poster_url : {None}, uid : OwnerIds]

\* Two calls of add_movie begin, on a table that is empty or holds Dune for
\* the Default user.
InitMoviesRace ==
    /\ users = {[id |-> 1, name |-> "Default"], [id |-> 2, name |-> "alice"]}
    /\ nextUserId = 3
    /\ movies \in {EmptyBag,
                   SetToBag({NewRow("Dune", "1984", "8.0", None, 1)})}
    /\ last = Call("import", Quiet)
    /\ schema = FreshSchema
    /\ boot = [outcome |-> "committed", fault |-> "none",
               added_user_id |-> FALSE, clean |-> 1]
    /\ conn \in [Conns -> RaceArgs]
    /\ lock = "free"
    /\ files = NoFiles
    /\ job = NoJob

\* exists = connection.execute(SELECT 1 FROM movies WHERE ...).first();
\* if exists: raise ValueError.  A SELECT reads what has been committed and
\* holds no lock once it has returned.
AddCheck(c) ==
    /\ conn[c].pc = "start"
    /\ conn' = [conn EXCEPT ![c] =
              IF Exists(movies, conn[c].title, conn[c].uid)
              THEN [@ EXCEPT !.pc = "ValueError"]
              ELSE [@ EXCEPT !.pc = "checked"]]
    /\ UNCHANGED <<users, nextUserId, movies, last, lock, bootVars, jsonVars>>

\* connection.execute(INSERT INTO movies ...)
AddInsert(c) ==
    /\ conn[c].pc = "checked"
    /\ CanWrite(c)
    /\ lock' = c
    /\ conn' = [conn EXCEPT ![c] = [@ EXCEPT !.pc = "inserted"]]
    /\ UNCHANGED <<users, nextUserId, movies, last, bootVars, jsonVars>>

\* connection.commit(): the inserted row becomes part of the table.
AddCommit(c) ==
    /\ conn[c].pc = "inserted"
    /\ movies' = movies (+) SetToBag({NewRow(conn[c].title, conn[c].year,
                                            conn[c].rating,
                                            conn[c].poster_url, conn[c].uid)})
    /\ lock' = "free"
    /\ conn' = [conn EXCEPT ![c] = [@ EXCEPT !.pc = "ok"]]
    /\ UNCHANGED <<users, nextUserId, last, bootVars, jsonVars>>

NextMoviesRace ==
    \/ \E c \in Conns : AddCheck(c)
    \/ \E c \in Conns : AddInsert(c)
    \/ \E c \in Conns : AddCommit(c)

SpecMoviesRace == InitMoviesRace /\ [][NextMoviesRace]_vars

(* --------------------------- JSON store calls -------------------------- *)

\* No call of the JSON store is under way.
AtRest == job.pc \in {"idle", "saved", "read", "raised"}

\* The places of save_movies a stop can fall between.
SavePcs == {"ensure", "open", "dump", "fsync", "replace"}

\* The state of the SQL store, which the JSON store does not share.
sqlVars == <<users, nextUserId, movies, last>>

InitJson ==
    /\ users = {[id |-> 1, name |-> "Default"]}
    /\ nextUserId = 2
    /\ movies = EmptyBag
    /\ last = Call("import", Quiet)
    /\ schema = FreshSchema
    /\ boot = [outcome |-> "committed", fault |-> "none",
               added_user_id |-> FALSE, clean |-> 1]
    /\ conn = IdleConns
    /\ lock = "free"
    /\ files = NoFiles
    /\ job = NoJob

\* A call that read `old` with get_movies and goes on to save_movies(new),
\* or raised instead.
Begin(g, raises, new) ==
    /\ files' = g.files
    /\ job' = IF raises THEN [pc |-> "raised"]
              ELSE [pc |-> "ensure", old |-> g.result, new |-> new]
    /\ UNCHANGED <<sqlVars, bootVars, raceVars>>

\* add_movie(title, year, rating) up to its call of save_movies
JsonAdd(title, rating) ==
    /\ AtRest
    /\ LET g == get_movies(files)
           S == DOMAIN g.result
       IN  Begin(g, title \in S,
                 [t \in S \cup {title} |->
                    IF t = title THEN [year |-> "2021", rating |-> rating]
                    ELSE g.result[t]])

\* delete_movie(title) up to its call of save_movies
JsonDelete(title) ==
    /\ AtRest
    /\ LET g == get_movies(files)
           S == DOMAIN g.result
       IN  Begin(g, title \notin S, [t \in S \ {title} |-> g.result[t]])

\* update_movie(title, rating=rating) up to its call of save_movies
JsonUpdate(title, rating) ==
    /\ AtRest
    /\ LET g == get_movies(files)
           S == DOMAIN g.result
       IN  Begin(g, title \notin S,
                 [t \in S |-> IF t = title
                              THEN [g.result[t] EXCEPT !.rating = rating]
                              ELSE g.result[t]])

\* save_movies, statement by statement.
SaveStep ==
    /\ job.pc \in SavePcs
    /\ LET tmp == TmpOf("data")
       IN  CASE job.pc = "ensure" ->
                  /\ files' = ensure_file(files)
                  /\ job' = [job EXCEPT !.pc = "open"]
             [] job.pc = "open" ->
                  /\ files' = [files EXCEPT ![tmp] = EmptyFile]
                  /\ job' = [job EXCEPT !.pc = "dump"]
             [] job.pc = "dump" ->
                  /\ files' = [files EXCEPT ![tmp] = Json(job.new, FALSE)]
                  /\ job' = [job EXCEPT !.pc = "fsync"]
             [] job.pc = "fsync" ->
                  /\ files' = [files EXCEPT ![tmp].synced = TRUE]
                  /\ job' = [job EXCEPT !.pc = "replace"]
             [] job.pc = "replace" ->
                  /\ files' = Replace(files, tmp, "data")
                  /\ job' = [job EXCEPT !.pc = "saved"]
    /\ UNCHANGED <<sqlVars, bootVars, raceVars>>

\* The process or the machine stops in the middle of save_movies.
Crash ==
    /\ job.pc \in SavePcs
    /\ files' \in [data : Survives(files.data), tmp : Survives(files.tmp)]
    /\ job' = [job EXCEPT !.pc = "crashed"]
    /\ UNCHANGED <<sqlVars, bootVars, raceVars>>

\* The program is started again and calls get_movies.
Recover ==
    /\ job.pc = "crashed"
    /\ LET g == get_movies(files)
       IN  /\ files' = g.files
           /\ job' = [pc |-> "read", old |-> job.old, new |-> job.new,
                      result |-> g.result]
    /\ UNCHANGED <<sqlVars, bootVars, raceVars>>

NextJson ==
    \/ \E title \in Titles, rating \in Ratings : JsonAdd(title, rating)
    \/ \E title \in Titles : JsonDelete(title)
    \/ \E title \in Titles, rating \in Ratings : JsonUpdate(title, rating)
    \/ SaveStep
    \/ Crash
    \/ Recover

SpecJson == InitJson /\ [][NextJson]_vars

TypeOK ==
    /\ users \subseteq UserRow
    /\ IsABag(movies)
    /\ BagToSet(movies) \subseteq MovieRow
    /\ BagCardinality(movies) <= MaxRows
    /\ \A r \in users : r.id < nextUserId

(* ------------------------------- claims -------------------------------- *)

PosterArgs == PosterUrls \cup {None}

\* The store after one more call, for each repository function.
AfterAdd(t, y, r, p, u) == add_movie(movies, t, y, r, p, u)
AfterDelete(t, u) == delete_movie(movies, t, u)
AfterUpdate(t, u, kw) == call_update_movie(movies, t, u, kw)

\* The number of rows of the table held for (owner, title).
RowsFor(m, t, u) ==
    BagCardinality([r \in {q \in BagToSet(m) : q.title = t /\ q.user_id = u}
                     |-> m[r]])

C2_DuplicateAddFailsUnchanged ==
    \A t \in Titles, y \in Years, r \in Ratings, p \in PosterArgs,
       u \in OwnerIds :
      Exists(movies, t, u) =>
        LET res == AfterAdd(t, y, r, p, u)
        IN  /\ res.outcome = "ValueError"
            /\ res.movies = movies
            /\ \A o \in OwnerIds :
                 list_movies(res.movies, o) = list_movies(movies, o)

\* C2 witness: an add has just failed as a duplicate and the row it
\* collided with is still there.
C2_Witness ==
    /\ last.op = "add_movie" /\ last.outcome = "ValueError"
    /\ movies # EmptyBag

\* C3: after any sequence of add, delete and update calls the movies table
\* holds at most one row for each (owner, title), titles compared exactly.
C3_OwnerTitleUnique ==
    \A t \in Titles, u \in OwnerIds : RowsFor(movies, t, u) <= 1

\* C3 witness: one owner holds both titles that differ only in case, after
\* an update.
C3_Witness ==
    /\ last.op = "update_movie" /\ last.printed = "updated"
    /\ \E u \in OwnerIds :
         RowsFor(movies, "Dune", u) = 1 /\ RowsFor(movies, "dune", u) = 1

\* C4: for distinct owners u1, u2 and any title t, add of t for u1 succeeds
\* whenever u1 does not hold t, whether or not u2 holds it, and the add of t
\* for u2 that follows succeeds as well if u2 did not hold it: the duplicate
\* check is scoped to the owner.
C4_AddScopedPerOwner ==
    \A t \in Titles, u1 \in OwnerIds, u2 \in OwnerIds,
       y \in Years, r \in Ratings, p \in PosterArgs :
      (u1 # u2 /\ ~Exists(movies, t, u1)) =>
        LET first == AfterAdd(t, y, r, p, u1)
        IN  /\ first.outcome = "ok"
            /\ RowsFor(first.movies, t, u1) = 1
            /\ ~Exists(movies, t, u2) =>
                 LET second == add_movie(first.movies, t, y, r, p, u2)
                 IN  /\ second.outcome = "ok"
                     /\ RowsFor(second.movies, t, u1) = 1
                     /\ RowsFor(second.movies, t, u2) = 1

\* C4 witness: an add has just succeeded and both owners hold the same title.
C4_Witness ==
    /\ last.op = "add_movie" /\ last.outcome = "ok"
    /\ \E t \in Titles : \A u \in OwnerIds : Exists(movies, t, u)

\* C5: for every owner u and title t with no row for (u, t), the call
\* delete_movie(t, u) fails with KeyError, and the movie rows and the user
\* rows after the call are those before it.
C5_DeleteAbsentFailsUnchanged ==
    [][last'.op = "delete_movie" =>
         \A t \in Titles, u \in OwnerIds :
           (~Exists(movies, t, u) /\ DeleteMovieCall(t, u)) =>
             /\ last'.outcome = "KeyError"
             /\ movies' = movies
             /\ users' = users]_vars

\* C5 witness: a delete has just failed with KeyError on a store that holds
\* rows of other (owner, title) pairs.
C5_Witness ==
    /\ last.op = "delete_movie" /\ last.outcome = "KeyError"
    /\ movies # EmptyBag

\* Keyword dictionaries naming only parameters update_movie has.
KnownKwargs == {kw \in KwargsSet : DOMAIN kw \subseteq UpdateParams}

\* The fields a keyword dictionary supplies a value for.
Supplied(kw) == {f \in DOMAIN kw : kw[f] # None}

\* C6 as stated: for every owner u and title t with no row for (u, t),
\* update_movie with at least one field supplied fails with the NotFound
\* condition (KeyError) reported to the caller and leaves the store unchanged.
C6_UpdateAbsentFailsNotFound ==
    [][\A t \in Titles, u \in OwnerIds, kw \in KnownKwargs :
         (/\ Supplied(kw) # {}
          /\ ~Exists(movies, t, u)
          /\ UpdateMovieCall(t, u, kw)) =>
           (last'.outcome = "KeyError" /\ movies' = movies)]_vars

\* The row r with the supplied fields of kw written over it.
Overwritten(r, kw) ==
    [f \in DOMAIN r |-> IF f \in Supplied(kw) THEN kw[f] ELSE r[f]]

C8_UpdateNoFieldsIsNoOp ==
    \A t \in Titles, u \in OwnerIds, kw \in KwargsSet :
      DOMAIN kw = {} =>
        /\ AfterUpdate(t, u, kw).outcome = "ok"
        /\ AfterUpdate(t, u, kw).access = FALSE
        /\ AfterUpdate(t, u, kw).movies = movies

\* C8 witness: an update has just returned without store access, once on a
\* table in which some (owner, title) has a row and some has none.
C8_Witness ==
    /\ last.op = "update_movie" /\ last.outcome = "ok" /\ ~last.access
    /\ \E t1, t2 \in Titles, u \in OwnerIds :
         Exists(movies, t1, u) /\ ~Exists(movies, t2, u)

\* The attributes list_movies reports for a row.
Attributes(r) ==
    [year |-> r.year, rating |-> r.rating, poster_url |-> r.poster_url]

\* C9: for owners u1 # u2, no add_movie, delete_movie or update_movie call
\* made for u1, successful or failing, changes list_movies(u2); and
\* list_movies(u2) holds exactly the rows owned by u2, with their own
\* values, also when u1 holds a movie of the same title.
C9_OwnerIsolation ==
    \A u1 \in OwnerIds, u2 \in OwnerIds :
      u1 # u2 =>
        LET listed == list_movies(movies, u2)
        IN  /\ \A t \in Titles :
                 /\ \A y \in Years, r \in Ratings, p \in PosterArgs :
                      list_movies(AfterAdd(t, y, r, p, u1).movies, u2) = listed
                 /\ list_movies(AfterDelete(t, u1).movies, u2) = listed
                 /\ \A kw \in KwargsSet :
                      list_movies(AfterUpdate(t, u1, kw).movies, u2) = listed
            /\ DOMAIN listed =
                 {r.title : r \in {q \in BagToSet(movies) : q.user_id = u2}}
            /\ \A r \in BagToSet(movies) :
                 r.user_id = u2 => listed[r.title] = Attributes(r)

\* C9 witness: both owners hold a movie of the same title with different
\* values, after an update.
C9_Witness ==
    /\ last.op = "update_movie" /\ last.printed = "updated"
    /\ \E t \in Titles, u1 \in OwnerIds, u2 \in OwnerIds :
         /\ u1 # u2
         /\ t \in DOMAIN list_movies(movies, u1)
         /\ t \in DOMAIN list_movies(movies, u2)
         /\ list_movies(movies, u1)[t] # list_movies(movies, u2)[t]

\* C10: for an existing (u, t), delete_movie(t, u) succeeds and removes
\* exactly the row matching title t and owner u: list_movies(u) then lacks
\* t, every other row is unchanged, and the same delete repeated at once
\* fails with KeyError.
C10_DeleteRemovesExactlyTheRow ==
    \A t \in Titles, u \in OwnerIds :
      Exists(movies, t, u) =>
        LET res == AfterDelete(t, u)
        IN  /\ res.outcome = "ok"
            /\ t \notin DOMAIN list_movies(res.movies, u)
            /\ BagToSet(res.movies) \subseteq BagToSet(movies)
            /\ \A r \in BagToSet(movies) :
                 CopiesIn(r, res.movies) =
                   IF r.title = t /\ r.user_id = u THEN 0
                   ELSE CopiesIn(r, movies)
            /\ delete_movie(res.movies, t, u).outcome = "KeyError"
            /\ delete_movie(res.movies, t, u).movies = res.movies

\* C10 witness: a delete has just succeeded and left a row behind, so that
\* some (owner, title) has a row and some has none.
C10_Witness ==
    /\ last.op = "delete_movie" /\ last.outcome = "ok"
    /\ \E t \in Titles, u \in OwnerIds : Exists(movies, t, u)
    /\ \E t \in Titles, u \in OwnerIds : ~Exists(movies, t, u)

(* --------------------------- claims: bootstrap ------------------------- *)

\* The number of rows of the table whose owner is uid (NullOwner: no owner).
RowsOwnedBy(m, uid) ==
    BagCardinality([r \in {q \in BagToSet(m) : OwnerOf(q) = uid} |-> m[r]])

\* C11: from every starting shape of the store (empty file, legacy movies
\* table without poster_url / user_id, present schema), a bootstrap pass
\* that follows a pass which raised nothing changes neither the schema nor
\* the user rows nor the movie rows: twice is the same as once.
C11_BootstrapIdempotent ==
    [][boot'.clean = 2 =>
         /\ schema' = schema
         /\ users' = users
         /\ nextUserId' = nextUserId
         /\ movies' = movies]_vars

\* Two passes in a row have run on a store that was migrated from a legacy
\* table and holds rows.
C11_Witness ==
    /\ boot.clean = 2
    /\ schema = [FreshSchema EXCEPT !.owner_not_null = FALSE]
    /\ \E r \in BagToSet(movies) : r.user_id = 1

\* C12 as stated: after every bootstrap pass that raised nothing a user
\* named Default exists, and every movie row whose owner was null before
\* the pass is owned by Default afterwards, whether or not the pass added
\* the owner column.
C12_BackfillEveryPass ==
    [][(boot'.outcome = "committed" /\ boot'.fault = "none") =>
         \E d \in users' :
           /\ d.name = "Default"
           /\ RowsOwnedBy(movies', NullOwner) = 0
           /\ RowsOwnedBy(movies', d.id) =
                RowsOwnedBy(movies, d.id) + RowsOwnedBy(movies, NullOwner)]_vars

\* C13 as stated: an error other than "column already exists" raised by any
\* statement of the bootstrap block aborts startup; the pass does not go on
\* to commit.
C13_OtherErrorsAbort ==
    [][boot'.fault # "none" => boot'.outcome = "aborted"]_vars

(* ------------------------- claims: user directory ---------------------- *)

\* C14: get_or_create_user(name) returns the (id, name) of the existing row
\* and adds none when the name exists; otherwise it inserts exactly one row
\* of that name under a new id and returns it.  A repeated call returns the
\* same pair and adds nothing, there is one row per name, and no existing
\* row is removed or renumbered.
C14_GetOrCreateUser ==
    /\ \A r1 \in users, r2 \in users :
         (r1.name = r2.name \/ r1.id = r2.id) => r1 = r2
    /\ \A name \in Names :
         LET res == get_or_create_user(users, nextUserId, name)
             again == get_or_create_user(res.users, res.nextId, name)
             row == [id |-> res.result[1], name |-> res.result[2]]
         IN  /\ users \subseteq res.users
             /\ row.name = name
             /\ row \in res.users
             /\ (\E r \in users : r.name = name) =>
                  (res.users = users /\ row \in users)
             /\ ~(\E r \in users : r.name = name) =>
                  /\ res.users = users \cup {row}
                  /\ \A r \in users : r.id # row.id
             /\ again.result = res.result
             /\ again.users = res.users

\* Users beyond Default have been created, the last call being one of them.
C14_Witness ==
    /\ last.op = "get_or_create_user"
    /\ Cardinality(users) >= 3
    /\ \E r \in users : r.name = "alice"

C17_ConcurrentAddOneWins ==
    (/\ \A c \in Conns : conn[c].pc \in {"ok", "ValueError"}
     /\ \A c \in Conns : "title" \in DOMAIN conn[c]
     /\ conn["A"].title = conn["B"].title
     /\ conn["A"].uid = conn["B"].uid) =>
       /\ ~(conn["A"].pc = "ok" /\ conn["B"].pc = "ok")
       /\ RowsFor(movies, conn["A"].title, conn["A"].uid) <= 1

\* The lower-case form of a code point.
Fold(c) == IF c >= 65 /\ c <= 90 THEN c + 32 ELSE c

\* a sorts strictly before b when case is ignored.
NoCaseLess(a, b) ==
    BytesLess([i \in DOMAIN NameBytes(a) |-> Fold(NameBytes(a)[i])],
              [i \in DOMAIN NameBytes(b) |-> Fold(NameBytes(b)[i])])

\* C16 as stated: list_users returns every user exactly once as (id, name),
\* in ascending order of the names compared without regard to case, and
\* the empty sequence when there is no user.
C16_ListUsersNoCaseOrder ==
    LET l == list_users(users)
    IN  /\ Len(l) = Cardinality(users)
        /\ {[id |-> l[i][1], name |-> l[i][2]] : i \in 1..Len(l)} = users
        /\ \A i \in 1..Len(l), j \in 1..Len(l) :
             i < j => NoCaseLess(l[i][2], l[j][2])
        /\ list_users({}) = <<>>

(* ----------------------- claims: owners and updates -------------------- *)

\* C18 as stated: after bootstrap and any sequence of repository calls with
\* arbitrary owner arguments, the owner of every movie row is non-null and
\* is the id of an existing user row; add_movie with an owner id that no
\* user has leaves no such row behind.
C18_OwnersExist ==
    \A r \in BagToSet(movies) :
      /\ r.user_id # NullOwner
      /\ \E u \in users : u.id = r.user_id

\* C20: update_movie treats a field passed as None exactly like a field not
\* passed: the call does what the call without those keywords does (with
\* every field None it returns without store access), so no call turns the
\* poster_url of a row from a value back to absent.
C20_NoneIsUnsupplied ==
    \A t \in Titles, u \in OwnerIds, kw \in KnownKwargs :
      LET res == AfterUpdate(t, u, kw)
          stripped == [f \in Supplied(kw) |-> kw[f]]
      IN  /\ res = AfterUpdate(t, u, stripped)
          /\ Supplied(kw) = {} => (~res.access /\ res.movies = movies)
          /\ \A r \in Matching(movies, t, u) :
               r.poster_url # None =>
                 /\ Matching(res.movies, t, u) # {}
                 /\ \A q \in Matching(res.movies, t, u) : q.poster_url # None

\* update_movie has run on a store with a row that has a poster.
C20_Witness ==
    /\ last.op = "update_movie"
    /\ last.access
    /\ \E r \in BagToSet(movies) : r.poster_url # None

(* --------------------------- claims: JSON store ------------------------ *)

\* C19: when save_movies is cut short after any of its steps, data.json
\* holds the whole previous or the whole new content, never part of one and
\* never an emptied one, so the get_movies that follows returns the old or
\* the new mapping and no movie saved before is lost.
C19_SaveIsAtomic ==
    /\ job.pc \in SavePcs \cup {"crashed"} =>
         /\ get_movies(files).result \in {job.old, job.new}
         /\ job.old # NoMovies =>
              /\ files.data.kind = "json"
              /\ files.data.doc \in {job.old, job.new}
    /\ job.pc = "read" => job.result \in {job.old, job.new}
    /\ job.pc = "saved" => files.data = Json(job.new, TRUE)

\* A save that was replacing one movie set by another was cut short while
\* the temporary file held only part of the new text, and get_movies has
\* run since.
C19_Witness ==
    /\ job.pc = "read"
    /\ job.old # NoMovies
    /\ job.new # job.old
    /\ files.tmp.kind = "partial"
    /\ job.result = job.old

====
